---- MODULE Spec2Model ----
(***************************************************************************)
(* Model of the blackwiremedia-bot image generator and publisher:          *)
(*   - GeneratorService text layout (drawText, splitTextIntoLines,         *)
(*     measureTextWidth, parseMarkdown, getFontFromMarkdown),              *)
(*   - GeneratorService.createPostImages (theme selection, variant loop),  *)
(*   - SocialService.compressImage (size-constrained re-encoding),         *)
(*   - GeneratorService.generateAllPosts over a batch, and the notifier's  *)
(*     lookup of the written files through SocialService._getImagePath,    *)
(*   - GeneratorService.applyPatternDarken on an RGBA pixel array,         *)
(*   - CrawlerService.generateContent (the retry loop),                    *)
(*   - CrawlerService.processAndStoreCVE over successive runs,             *)
(*   - the notifier's main over successive cron runs,                      *)
(*   - SocialService.truncate.                                             *)
(* Strings are sequences of one-character strings.  Pixel widths are       *)
(* integers: a glyph's advance is given in twentieths of the font size.    *)
(***************************************************************************)
EXTENDS Integers, Sequences, FiniteSets, TLC

VARIABLES
    \* ---- text layout (GeneratorService.drawText and its helpers) ----
    text,       \* the text handed to drawText / the line handed to parseMarkdown
    runs,       \* the emphasis runs text was written from (<<>> when text is raw)
    canvas,     \* [width, height] of the canvas being drawn
    ctxFont,    \* ctx.font, the ambient font of the 2d context
    tpc,        \* position of the layout code: start, bubbles, drawn, parsed, threw
    wrapped,    \* lines returned by splitTextIntoLines inside drawText
    spaceUsed,  \* ctx.measureText(' ').width as splitTextIntoLines read it
    drawn,      \* lines after drawText's truncation (the lines it draws)
    segments,   \* parseMarkdown result of every drawn line (or of text)
    textPos,    \* {top, bottom, center} returned by drawText (doubled pixels)
    \* ---- createPostImages ----
    score,      \* vuln.cvss_score in tenths
    themeColor, \* theme key chosen by createPostImages
    vIdx,       \* number of variants already rendered (0..4)
    ops,        \* draw operations of every rendered variant, in order
    written,    \* files written by fs.writeFileSync, in order
    rpc,        \* position of createPostImages: idle, loop, done
    \* ---- compressImage ----
    file,       \* the file at filePath: [data, size, enc]
    buffer,     \* local variable buffer
    quality,    \* local variable quality
    attempts,   \* re-encodes performed: sequence of [quality, source, size]
    result,     \* the returned buffer
    firstResult,\* what the first application returned (before re-application)
    round,      \* how many times compressImage was applied (1 or 2)
    cpc,        \* position of compressImage: idle, loop, done
    \* ---- generateAllPosts, createPostImages on a batch, and the notifier ----
    batch,      \* rows returned by getVulnerabilities: [cve_id, post_title, post_content]
    catalog,    \* number of .png/.jpg files in the illustrations directory
    bIdx,       \* index in batch of the record `for (const vuln of vulns)` is at
    bvIdx,      \* variants of the current record already written (0..4)
    attempted,  \* indexes of the records createPostImages was called for, in order
    completed,  \* indexes of the records createPostImages returned for
    writes,     \* fs.writeFileSync calls: [rec, dir, name, width, height, canvas, body]
    canvasCount,\* canvases created by createCanvas so far
    attachments,\* paths the notifier attached to its mail
    seen,       \* the files below outputDir when the notifier looked
    npc,        \* position of the notifier: idle, start, sent
    bpc,        \* position of generateAllPosts: idle, start, loop, variants, done, rejected
    \* ---- applyPatternDarken ----
    imgSize,    \* [width, height] handed to applyPatternDarken
    darkness,   \* the darkness argument, in tenths
    pixels,     \* imageData.data before the call: <<x, y>> -> <<R, G, B, A>>
    darkened,   \* imageData.data put back by putImageData
    dpc,        \* position of applyPatternDarken: idle, start, done
    \* ---- generateContent ----
    promptRead, \* whether getPromptFromFile could read the prompt file
    attempt,    \* loop variable attempt
    calls,      \* outcome of every model.generateContent call, in order
    waited,     \* number of one-minute waits completed
    genResult,  \* what generateContent returned
    gpc,        \* position of generateContent: idle, start, call, wait, returned, threw
    \* ---- CrawlerService.processAndStoreCVE and the vulnerabilities table ----
    feed,       \* response.data.vulnerabilities of fetchRecentCVE: [id, score]
    table,      \* rows of the vulnerabilities table
    selected,   \* selectedCves of the current run
    sIdx,       \* index in selected of the entry the loop is at
    insertedRun,\* rows inserted by the current run
    genLog,     \* generateContent rounds of all runs: [run, id, stored, failed]
    crawlRun,   \* number of the current processAndStoreCVE run
    kpc,        \* position of processAndStoreCVE: idle, start, loop, done
    \* ---- the notifier's main over successive cron runs ----
    rows,       \* rows of the vulnerabilities table the notifier reads
    mails,      \* identifiers of the mails sendMail delivered, in order
    socialRun,  \* number of the current run of main
    spc,        \* position of main: idle, start, done
    \* ---- SocialService.truncate ----
    trText,     \* the text argument
    trLimit,    \* the limit argument
    trResult,   \* the returned string
    trpc        \* position of truncate: idle, start, done

textVars == <<text, runs, canvas, ctxFont, tpc, wrapped, spaceUsed, drawn, segments, textPos>>
renderVars == <<score, themeColor, vIdx, ops, written, rpc>>
compressVars == <<file, buffer, quality, attempts, result, firstResult, round, cpc>>
batchVars == <<batch, catalog, bIdx, bvIdx, attempted, completed, writes, canvasCount,
               attachments, seen, npc, bpc>>
darkenVars == <<imgSize, darkness, pixels, darkened, dpc>>
genVars == <<promptRead, attempt, calls, waited, genResult, gpc>>
crawlVars == <<feed, table, selected, sIdx, insertedRun, genLog, crawlRun, kpc>>
socialVars == <<rows, mails, socialRun, spc>>
truncVars == <<trText, trLimit, trResult, trpc>>
vars == <<textVars, renderVars, compressVars, batchVars, darkenVars, genVars,
          crawlVars, socialVars, truncVars>>

----------------------------------------------------------------------------
(* Bounds of the model *)

\* longest raw text enumerated
MaxLen == 6
\* most emphasis runs a style-delimited line is written from
MaxRuns == 3

----------------------------------------------------------------------------
(* Strings *)

STAR == "*"
SPACE == " "
\* "a": a letter; "e": a character with a pictograph asset; "*"; " "
Alphabet == {"a", "e", STAR, SPACE}
\* characters of the text inside an emphasis run
Letters == {"a", "e"}

Texts == UNION {[1..n -> Alphabet] : n \in 1..MaxLen}

RECURSIVE Concat(_)
\* concatenation of a sequence of strings
Concat(ss) == IF ss = <<>> THEN <<>> ELSE Head(ss) \o Concat(Tail(ss))

Min(a, b) == IF a < b THEN a ELSE b
Max(a, b) == IF a > b THEN a ELSE b

\* String.prototype.slice(from0, to0) with 0-based, possibly negative, indices
Slice(s, from0, to0) ==
    LET n == Len(s)
        f == IF from0 < 0 THEN Max(n + from0, 0) ELSE Min(from0, n)
        t == IF to0 < 0 THEN Max(n + to0, 0) ELSE Min(to0, n)
    IN  IF f >= t THEN <<>> ELSE SubSeq(s, f + 1, t)

RECURSIVE SplitFrom(_, _, _)
\* text.split(' '): cur is the word being read, i the next index
SplitFrom(s, i, cur) ==
    IF i > Len(s) THEN <<cur>>
    ELSE IF s[i] = SPACE THEN <<cur>> \o SplitFrom(s, i + 1, <<>>)
    ELSE SplitFrom(s, i + 1, Append(cur, s[i]))

Split(s) == SplitFrom(s, 1, <<>>)

RECURSIVE Join(_)
\* words.join(' ')
Join(ws) ==
    IF ws = <<>> THEN <<>>
    ELSE IF Len(ws) = 1 THEN ws[1]
    ELSE ws[1] \o <<SPACE>> \o Join(Tail(ws))

----------------------------------------------------------------------------
(* Fonts and text metrics *)

\* margin of the content variant (createPostImages) and default of drawText
Margin == 80
\* font size of the body text in drawText
BodyFontSize == 40

Font(size, family) == [size |-> size, family |-> family]

\* the font of a freshly created canvas context
DefaultFont == Font(10, "sans-serif")
\* the font drawBubbles leaves in the context for a content variant (secondFont)
ContentBubbleFont == Font(20, "Poppins-SemiBoldItalic")

\* advance of a glyph in twentieths of the font size (the font backend's metric)
Advance(ch) ==
    CASE ch = "a" -> 12
      [] ch = "e" -> 20
      [] ch = STAR -> 10
      [] ch = SPACE -> 5
      [] OTHER -> 5

\* ctx.measureText(ch).width under font
measureText(ch, font) == (font.size * Advance(ch)) \div 20

\* getEmojiPath(char) !== null: the character has a pictograph asset
getEmojiPath(ch) == ch = "e"

getFontFromMarkdown(style) ==
    CASE style = "bold" -> "Poppins-SemiBold"
      [] style = "italic" -> "Poppins-Italic"
      [] style = "bolditalic" -> "Poppins-SemiBoldItalic"
      [] OTHER -> "Poppins-Medium"

RECURSIVE SumWidths(_, _, _)
\* the loop of measureTextWidth over the characters of txt under font
SumWidths(txt, fontSize, font) ==
    IF txt = <<>> THEN 0
    ELSE (IF getEmojiPath(Head(txt)) THEN (fontSize * 12) \div 10
          ELSE measureText(Head(txt), font))
         + SumWidths(Tail(txt), fontSize, font)

\* measureTextWidth(ctx, text, fontSize, style); ctx.font is restored on return
measureTextWidth(txt, fontSize, style) ==
    SumWidths(txt, fontSize, Font(fontSize, getFontFromMarkdown(style)))

----------------------------------------------------------------------------
(* splitTextIntoLines *)

\* the push branch of the loop in splitTextIntoLines: the width the running
\* line has after word (of width w) joined it
PushWidth(cw, w, spaceW) == cw + w + spaceW

\* the break branch: the width of the new running line holding only word
BreakWidth(w, spaceW) == w

RECURSIVE SplitLoop(_, _, _, _, _, _, _)
\* the for loop of splitTextIntoLines from word i on
SplitLoop(words, i, lines, cur, cw, maxWidth, m) ==
    IF i > Len(words)
    THEN IF Len(cur) > 0 THEN Append(lines, Join(cur)) ELSE lines
    ELSE LET word == words[i]
             wordWidth == measureTextWidth(word, m.fontSize, "regular")
         IN  IF cw + wordWidth > maxWidth /\ Len(cur) > 0
             THEN SplitLoop(words, i + 1, Append(lines, Join(cur)), <<word>>,
                            BreakWidth(wordWidth, m.spaceW), maxWidth, m)
             ELSE SplitLoop(words, i + 1, lines, Append(cur, word),
                            PushWidth(cw, wordWidth, m.spaceW), maxWidth, m)

\* splitTextIntoLines that leaves out the empty words of split(' ')
splitTextIntoLinesSkipEmpty(font, txt, maxWidth, fontSize) ==
    SplitLoop(SelectSeq(Split(txt), LAMBDA w : w # <<>>), 1, <<>>, <<>>, 0, maxWidth,
              [fontSize |-> fontSize, spaceW |-> measureText(SPACE, font)])

\* splitTextIntoLines(ctx, text, maxWidth, fontSize) with ctx.font = font;
\* the inter-word space is measured under the ambient font
splitTextIntoLines(font, txt, maxWidth, fontSize) ==
    SplitLoop(Split(txt), 1, <<>>, <<>>, 0, maxWidth,
              [fontSize |-> fontSize, spaceW |-> measureText(SPACE, font)])

----------------------------------------------------------------------------
(* parseMarkdown *)

\* line holds k asterisks from index i on
StarsAt(line, i, k) ==
    /\ i >= 1
    /\ i + k - 1 <= Len(line)
    /\ \A j \in 0..(k - 1) : line[i + j] = STAR

\* FindClose with a greedy `.*`: the last closing delimiter instead of the first
FindCloseGreedy(line, from, k) ==
    LET hits == {j \in from..Len(line) : StarsAt(line, j, k)}
    IN  IF hits = {} THEN 0 ELSE CHOOSE j \in hits : \A h \in hits : j >= h

\* `.*?` followed by k asterisks, tried from index `from` on: the index of the
\* first closing delimiter, 0 when there is none.  (`.` refuses line
\* terminators; the alphabet of the model holds none.)
FindClose(line, from, k) ==
    LET hits == {j \in from..Len(line) : StarsAt(line, j, k)}
    IN  IF hits = {} THEN 0 ELSE CHOOSE j \in hits : \A h \in hits : j <= h

\* `[^\*]+` from index i: the index of the last character of the run
PlainEnd(line, i) ==
    LET stops == {j \in i..Len(line) : line[j] = STAR}
    IN  IF stops = {} THEN Len(line)
        ELSE (CHOOSE j \in stops : \A h \in stops : j <= h) - 1

\* the emphasis alternative \*{k}.*?\*{k} at index p: index of the last
\* character of the match, 0 when the alternative fails at p
EmphasisEnd(line, p, k) ==
    IF StarsAt(line, p, k) /\ FindClose(line, p + k, k) # 0
    THEN FindClose(line, p + k, k) + k - 1
    ELSE 0

\* the regex /(\*\*\*.*?\*\*\*|\*\*.*?\*\*|\*.*?\*|[^\*]+)/ tried at index p,
\* alternatives in their order: index of the last matched character, 0 when
\* nothing matches at p
MatchEndAt(line, p) ==
    IF EmphasisEnd(line, p, 3) # 0 THEN EmphasisEnd(line, p, 3)
    ELSE IF EmphasisEnd(line, p, 2) # 0 THEN EmphasisEnd(line, p, 2)
    ELSE IF EmphasisEnd(line, p, 1) # 0 THEN EmphasisEnd(line, p, 1)
    ELSE IF line[p] # STAR THEN PlainEnd(line, p)
    ELSE 0

\* /^\*{k}.*\*{k}$/.test(txt)
Wrapped(txt, k) ==
    /\ Len(txt) >= 2 * k
    /\ StarsAt(txt, 1, k)
    /\ StarsAt(txt, Len(txt) - k + 1, k)

\* Classify with the bold delimiter stripped as if it were one asterisk long
ClassifyShortStrip(txt) ==
    IF Wrapped(txt, 3) THEN [text |-> Slice(txt, 3, -3), style |-> "bolditalic"]
    ELSE IF Wrapped(txt, 2) THEN [text |-> Slice(txt, 1, -1), style |-> "bold"]
    ELSE IF Wrapped(txt, 1) THEN [text |-> Slice(txt, 1, -1), style |-> "italic"]
    ELSE [text |-> txt, style |-> "regular"]

\* the body of the while loop of parseMarkdown: the segment made of match[0]
Classify(txt) ==
    IF Wrapped(txt, 3) THEN [text |-> Slice(txt, 3, -3), style |-> "bolditalic"]
    ELSE IF Wrapped(txt, 2) THEN [text |-> Slice(txt, 2, -2), style |-> "bold"]
    ELSE IF Wrapped(txt, 1) THEN [text |-> Slice(txt, 1, -1), style |-> "italic"]
    ELSE [text |-> txt, style |-> "regular"]

RECURSIVE ParseFrom(_, _)
\* regex.exec(line) repeated from lastIndex = p - 1: a position where nothing
\* matches is skipped, its character belongs to no match
ParseFrom(line, p) ==
    IF p > Len(line) THEN <<>>
    ELSE LET e == MatchEndAt(line, p)
         IN  IF e = 0 THEN ParseFrom(line, p + 1)
             ELSE <<Classify(SubSeq(line, p, e))>> \o ParseFrom(line, e + 1)

parseMarkdown(line) == ParseFrom(line, 1)

----------------------------------------------------------------------------
(* drawText *)

\* lineHeight = fontSize * 1.5
LineHeight(fontSize) == (fontSize * 3) \div 2

\* MaxLines over the whole canvas height, the margins not set aside
MaxLinesNoMargin(height, margin, fontSize) == height \div LineHeight(fontSize)

\* maxLines = Math.floor((height - 2 * margin) / lineHeight)
MaxLines(height, margin, fontSize) ==
    (height - 2 * margin) \div LineHeight(fontSize)

\* Ellipsize with the threshold off by one (length >= 3)
EllipsizeFromThree(last) ==
    IF Len(last) >= 3 THEN Slice(last, 0, -3) \o <<".", ".", ".">> ELSE last

\* the replacement of the last retained line
Ellipsize(last) ==
    IF Len(last) > 3 THEN Slice(last, 0, -3) \o <<".", ".", ".">> ELSE last

\* Truncate with the limit compared but one line too many retained
TruncateOneMore(lines, maxLines) ==
    IF Len(lines) > maxLines
    THEN LET kept == Slice(lines, 0, maxLines + 1)
         IN  [threw |-> FALSE,
              lines |-> [kept EXCEPT ![Len(kept)] = Ellipsize(kept[Len(kept)])]]
    ELSE [threw |-> FALSE, lines |-> lines]

\* the truncation block of drawText applied to the wrapped lines; threw is
\* the TypeError of reading .length of undefined when nothing is retained
Truncate(lines, maxLines) ==
    IF Len(lines) > maxLines
    THEN LET kept == Slice(lines, 0, maxLines)
         IN  IF kept = <<>> THEN [threw |-> TRUE, lines |-> kept]
             ELSE [threw |-> FALSE,
                   lines |-> [kept EXCEPT ![Len(kept)] = Ellipsize(kept[Len(kept)])]]
    ELSE [threw |-> FALSE, lines |-> lines]

\* ctx.font after the draw loop: the font of the last segment drawn
FontAfterDraw(font, segs, fontSize) ==
    LET all == Concat(segs)
    IN  IF all = <<>> THEN font
        ELSE Font(fontSize, getFontFromMarkdown(all[Len(all)].style))

\* drawText(ctx, text, width, height, margin) with ctx.font = font.
\* Positions are kept doubled (margin * 1.5 need not be an integer).
drawText(font, txt, width, height, margin) ==
    LET maxWidth == width - margin * 2
        fontSize == BodyFontSize
        lines0 == splitTextIntoLines(font, txt, maxWidth, fontSize)
        cut == Truncate(lines0, MaxLines(height, margin, fontSize))
        segs == [i \in 1..Len(cut.lines) |-> parseMarkdown(cut.lines[i])]
        total2 == 2 * Len(cut.lines) * LineHeight(fontSize)
        start2 == 2 * height - 3 * margin - total2
    IN  [threw |-> cut.threw,
         wrapped |-> lines0,
         lines |-> cut.lines,
         segments |-> segs,
         font |-> IF cut.threw THEN font ELSE FontAfterDraw(font, segs, fontSize),
         pos |-> [top |-> start2, bottom |-> start2 + total2,
                  center |-> start2 + total2 \div 2]]

----------------------------------------------------------------------------
(* Inputs of the text layout *)

\* the four variants of createPostImages have two sizes
VariantSizes == {[width |-> 1080, height |-> 1350], [width |-> 1920, height |-> 1080]}

\* small canvases on which a short text wraps and overflows maxLines:
\* maxWidth 60 with one line, maxWidth 100 with two lines
SmallCanvases == {[width |-> 220, height |-> 220], [width |-> 260, height |-> 280]}

Canvases == VariantSizes \cup SmallCanvases

Styles == {"regular", "italic", "bold", "bolditalic"}

\* an emphasis run: one character of text in one style
Runs == {[text |-> <<c>>, style |-> st] : c \in Letters, st \in Styles}

Delimiter(style) ==
    CASE style = "italic" -> <<STAR>>
      [] style = "bold" -> <<STAR, STAR>>
      [] style = "bolditalic" -> <<STAR, STAR, STAR>>
      [] OTHER -> <<>>

\* the way a run is written in a line
Render(run) == Delimiter(run.style) \o run.text \o Delimiter(run.style)

\* style-delimited lines: runs in sequence, no two plain runs adjacent
RunSeqs ==
    {rs \in UNION {[1..n -> Runs] : n \in 1..MaxRuns} :
        \A i \in 1..(Len(rs) - 1) :
            ~(rs[i].style = "regular" /\ rs[i + 1].style = "regular")}

RenderAll(rs) == Concat([i \in 1..Len(rs) |-> Render(rs[i])])

----------------------------------------------------------------------------
(* Idle values of the parts a specification does not exercise *)

TextIdle ==
    /\ text = <<>> /\ runs = <<>> /\ canvas = [width |-> 0, height |-> 0]
    /\ ctxFont = DefaultFont /\ tpc = "idle" /\ wrapped = <<>> /\ spaceUsed = 0
    /\ drawn = <<>> /\ segments = <<>> /\ textPos = [top |-> 0, bottom |-> 0, center |-> 0]

RenderIdle ==
    /\ score = 0 /\ themeColor = "none" /\ vIdx = 0 /\ ops = <<>>
    /\ written = <<>> /\ rpc = "idle"

NoBuffer == [data |-> "none", size |-> 0, enc |-> "none"]

CompressIdle ==
    /\ file = NoBuffer /\ buffer = NoBuffer /\ quality = 0 /\ attempts = <<>>
    /\ result = NoBuffer /\ firstResult = NoBuffer /\ round = 0 /\ cpc = "idle"

BatchIdle ==
    /\ batch = <<>> /\ catalog = 0 /\ bIdx = 0 /\ bvIdx = 0 /\ attempted = <<>>
    /\ completed = {} /\ writes = <<>> /\ canvasCount = 0 /\ attachments = {}
    /\ seen = {} /\ npc = "idle" /\ bpc = "idle"

DarkenIdle ==
    /\ imgSize = [width |-> 0, height |-> 0] /\ darkness = 0 /\ pixels = <<>>
    /\ darkened = <<>> /\ dpc = "idle"

GenIdle ==
    /\ promptRead = FALSE /\ attempt = 0 /\ calls = <<>> /\ waited = 0
    /\ genResult = "none" /\ gpc = "idle"

CrawlIdle ==
    /\ feed = <<>> /\ table = {} /\ selected = <<>> /\ sIdx = 0 /\ insertedRun = 0
    /\ genLog = <<>> /\ crawlRun = 0 /\ kpc = "idle"

SocialIdle ==
    /\ rows = <<>> /\ mails = <<>> /\ socialRun = 0 /\ spc = "idle"

TruncIdle ==
    /\ trText = <<>> /\ trLimit = 0 /\ trResult = <<>> /\ trpc = "idle"

----------------------------------------------------------------------------
(* Text layout: the content branch of createPostImages, and parseMarkdown *)

TextInit ==
    /\ \/ runs \in RunSeqs /\ text = RenderAll(runs)
       \/ runs = <<>> /\ text \in Texts
    /\ canvas \in Canvases
    /\ ctxFont = DefaultFont
    /\ tpc = "start"
    /\ wrapped = <<>> /\ spaceUsed = 0 /\ drawn = <<>> /\ segments = <<>>
    /\ textPos = [top |-> 0, bottom |-> 0, center |-> 0]
    /\ RenderIdle /\ CompressIdle /\ BatchIdle /\ DarkenIdle /\ GenIdle
    /\ CrawlIdle /\ SocialIdle /\ TruncIdle

\* drawBubbles(ctx, cveId, width, height, themeColor): getTextWidth sets
\* ctx.font before ctx.save(), so restore() brings back secondFont
DrawBubbles ==
    /\ tpc = "start"
    /\ ctxFont' = ContentBubbleFont
    /\ tpc' = "bubbles"
    /\ UNCHANGED <<text, runs, canvas, wrapped, spaceUsed, drawn, segments, textPos>>
    /\ UNCHANGED <<renderVars, compressVars, batchVars, darkenVars, genVars, crawlVars, socialVars, truncVars>>

\* await this.drawText(ctx, vuln.post_content || ..., width, height, margin)
DrawText ==
    /\ tpc = "bubbles"
    /\ LET r == drawText(ctxFont, text, canvas.width, canvas.height, Margin)
       IN  /\ wrapped' = r.wrapped
           /\ spaceUsed' = measureText(SPACE, ctxFont)
           /\ drawn' = r.lines
           /\ segments' = r.segments
           /\ ctxFont' = r.font
           /\ textPos' = IF r.threw THEN textPos ELSE r.pos
           /\ tpc' = IF r.threw THEN "threw" ELSE "drawn"
    /\ UNCHANGED <<text, runs, canvas>>
    /\ UNCHANGED <<renderVars, compressVars, batchVars, darkenVars, genVars, crawlVars, socialVars, truncVars>>

\* this.parseMarkdown(line) on text as one line
ParseMarkdown ==
    /\ tpc = "start"
    /\ segments' = <<parseMarkdown(text)>>
    /\ tpc' = "parsed"
    /\ UNCHANGED <<text, runs, canvas, ctxFont, wrapped, spaceUsed, drawn, textPos>>
    /\ UNCHANGED <<renderVars, compressVars, batchVars, darkenVars, genVars, crawlVars, socialVars, truncVars>>

TextNext == DrawBubbles \/ DrawText \/ ParseMarkdown

SpecText == TextInit /\ [][TextNext]_vars

----------------------------------------------------------------------------
(* createPostImages *)

\* lowest stored score in tenths: processAndStoreCVE keeps baseScore >= 8
MinScore == 80
\* highest score enumerated, in tenths
MaxScore == 100

Scores == MinScore..MaxScore

\* this.theme: primary, secondary and tertiary colour of every theme
Theme ==
    [blue |-> <<"rgba(30,64,175,1)", "rgba(23,37,84,0.8)", "rgba(30,64,175,0.6)">>,
     orange |-> <<"rgba(175,107,30,1)", "rgba(116,73,25,0.8)", "rgba(175,107,30,0.6)">>,
     red |-> <<"rgba(175,30,30,1)", "rgba(116,25,25,0.8)", "rgba(175,30,30,0.6)">>]

\* SelectTheme with strict comparisons
SelectThemeStrict(s) ==
    IF s < 90 THEN "blue" ELSE IF s < 95 THEN "orange" ELSE "red"

\* vuln.cvss_score <= 9 ? 'blue' : vuln.cvss_score <= 9.5 ? 'orange' : 'red'
\* on a score in tenths
SelectTheme(s) ==
    IF s <= 90 THEN "blue" ELSE IF s <= 95 THEN "orange" ELSE "red"

\* the variants array of createPostImages
Variants ==
    <<[name |-> "vertical-thumbnail.png", width |-> 1080, height |-> 1350],
      [name |-> "vertical-content.png", width |-> 1080, height |-> 1350],
      [name |-> "horizontal-thumbnail.png", width |-> 1920, height |-> 1080],
      [name |-> "horizontal-content.png", width |-> 1920, height |-> 1080]>>

\* name.includes('thumbnail')
IsThumbnail(name) ==
    name \in {"vertical-thumbnail.png", "horizontal-thumbnail.png"}

Op(kind, key, fill) == [op |-> kind, theme |-> key, fill |-> fill]

\* BubbleOps with both badges filled with the theme's primary colour
BubbleOpsBothPrimary(key) ==
    <<Op("badge-label", key, Theme[key][1]), Op("badge-id", key, Theme[key][1])>>

\* drawBubbles: the "New vulnerability" badge filled with the theme's primary
\* colour, the identifier badge filled with '#FFF'
BubbleOps(key) ==
    <<Op("badge-label", key, Theme[key][1]), Op("badge-id", key, "#FFF")>>

\* VariantOps with the two tags drawn before the role's content
VariantOpsTagsFirst(variant, key) ==
    <<Op("background", "none", "image"), Op("darken", "none", "none"),
      Op("gradient", key, Theme[key][2]),
      Op("credit", "none", "rgba(255,255,255,0.7)"),
      Op("source", "none", "rgba(255,255,255,0.7)")>>
    \o (IF IsThumbnail(variant.name)
        THEN BubbleOps(key)
             \o <<Op("title", "none", "#FFFFFF"), Op("arrows", "none", "rgba(255,255,255,0.9)")>>
        ELSE BubbleOps(key)
             \o <<Op("text", "none", "#ffffff"), Op("score-badge", key, Theme[key][1])>>)

\* the drawing calls of one iteration of the variant loop, in call order;
\* theme is the themeColor argument the call receives ("none": no such argument)
VariantOps(variant, key) ==
    <<Op("background", "none", "image"), Op("darken", "none", "none"),
      Op("gradient", key, Theme[key][2])>>
    \o (IF IsThumbnail(variant.name)
        THEN BubbleOps(key)
             \o <<Op("title", "none", "#FFFFFF"), Op("arrows", "none", "rgba(255,255,255,0.9)")>>
        ELSE BubbleOps(key)
             \o <<Op("text", "none", "#ffffff"), Op("score-badge", key, Theme[key][1])>>)
    \o <<Op("credit", "none", "rgba(255,255,255,0.7)"),
         Op("source", "none", "rgba(255,255,255,0.7)")>>

RenderInit ==
    /\ score \in Scores
    /\ themeColor = "none" /\ vIdx = 0 /\ ops = <<>> /\ written = <<>>
    /\ rpc = "start"
    /\ TextIdle /\ CompressIdle /\ BatchIdle /\ DarkenIdle /\ GenIdle
    /\ CrawlIdle /\ SocialIdle /\ TruncIdle

\* createPostImages up to the variant loop: theme selection
CreatePostImages ==
    /\ rpc = "start"
    /\ themeColor' = SelectTheme(score)
    /\ rpc' = "loop"
    /\ UNCHANGED <<score, vIdx, ops, written>>
    /\ UNCHANGED <<textVars, compressVars, batchVars, darkenVars, genVars, crawlVars, socialVars, truncVars>>

\* one iteration of `for (const variant of variants)`: a fresh canvas, the
\* drawing calls, fs.writeFileSync
RenderVariant ==
    /\ rpc = "loop"
    /\ vIdx < Len(Variants)
    /\ LET variant == Variants[vIdx + 1]
       IN  /\ ops' = Append(ops, VariantOps(variant, themeColor))
           /\ written' = Append(written, variant.name)
    /\ vIdx' = vIdx + 1
    /\ rpc' = IF vIdx + 1 = Len(Variants) THEN "done" ELSE "loop"
    /\ UNCHANGED <<score, themeColor>>
    /\ UNCHANGED <<textVars, compressVars, batchVars, darkenVars, genVars, crawlVars, socialVars, truncVars>>

RenderNext == CreatePostImages \/ RenderVariant

SpecRender == RenderInit /\ [][RenderNext]_vars

----------------------------------------------------------------------------
(* compressImage *)

\* the byte ceiling publishOnBluesky passes as maxSize
BlobLimit == 950 * 1024

\* file and encoder output sizes lie within SizeSpread bytes of the ceiling
SizeSpread == 2

Sizes == (BlobLimit - SizeSpread)..(BlobLimit + SizeSpread)

\* the PNG files createPostImages wrote
PngFiles == {[data |-> "png", size |-> sz, enc |-> "png"] : sz \in Sizes}

\* buffer.length <= maxSize
WithinLimit(buf, maxSize) == buf.size <= maxSize

\* the loop test with the quality floor one step lower
LoopGuardLowFloor(buf, q, maxSize) == buf.size > maxSize /\ q > 30

\* buffer.length > maxSize && quality > 40
LoopGuard(buf, q, maxSize) == buf.size > maxSize /\ q > 40

\* sharp(filePath).jpeg({ quality }).toBuffer(): the JPEG encoding of the
\* file at filePath, of whatever size sz the encoder yields
Encode(src, q, sz) == [data |-> <<"jpeg", src.data, q>>, size |-> sz, enc |-> "jpeg"]

CompressInit ==
    /\ file \in PngFiles
    /\ buffer = NoBuffer /\ quality = 0 /\ attempts = <<>>
    /\ result = NoBuffer /\ firstResult = NoBuffer
    /\ round = 1
    /\ cpc = "start"
    /\ TextIdle /\ RenderIdle /\ BatchIdle /\ DarkenIdle /\ GenIdle
    /\ CrawlIdle /\ SocialIdle /\ TruncIdle

\* CompressBegin without the early return: the file is encoded as JPEG at
\* quality 90 before its size is looked at
CompressBeginAlwaysEncodes ==
    /\ cpc = "start"
    /\ \E sz \in Sizes :
           /\ buffer' = Encode(file, 90, sz)
           /\ attempts' = Append(attempts,
                  [quality |-> 90, source |-> file.data, size |-> sz])
    /\ quality' = 80
    /\ cpc' = "loop"
    /\ UNCHANGED <<file, result, firstResult, round>>
    /\ UNCHANGED <<textVars, renderVars, batchVars, darkenVars, genVars, crawlVars, socialVars, truncVars>>

\* compressImage up to the loop: read the file, return it when it fits
CompressBegin ==
    /\ cpc = "start"
    /\ buffer' = file
    /\ IF WithinLimit(file, BlobLimit)
       THEN /\ result' = file
            /\ cpc' = "done"
            /\ UNCHANGED quality
       ELSE /\ quality' = 90
            /\ cpc' = "loop"
            /\ UNCHANGED result
    /\ UNCHANGED <<file, attempts, firstResult, round>>
    /\ UNCHANGED <<textVars, renderVars, batchVars, darkenVars, genVars, crawlVars, socialVars, truncVars>>

\* one iteration of the while loop: re-encode the file, lower the quality
CompressEncode ==
    /\ cpc = "loop"
    /\ LoopGuard(buffer, quality, BlobLimit)
    /\ \E sz \in Sizes :
           /\ buffer' = Encode(file, quality, sz)
           /\ attempts' = Append(attempts,
                  [quality |-> quality, source |-> file.data, size |-> sz])
    /\ quality' = quality - 10
    /\ UNCHANGED <<file, result, firstResult, round, cpc>>
    /\ UNCHANGED <<textVars, renderVars, batchVars, darkenVars, genVars, crawlVars, socialVars, truncVars>>

\* the loop test fails: return buffer
CompressReturn ==
    /\ cpc = "loop"
    /\ ~LoopGuard(buffer, quality, BlobLimit)
    /\ result' = buffer
    /\ cpc' = "done"
    /\ UNCHANGED <<file, buffer, quality, attempts, firstResult, round>>
    /\ UNCHANGED <<textVars, renderVars, batchVars, darkenVars, genVars, crawlVars, socialVars, truncVars>>

\* compressImage applied to a file holding what it returned
CompressAgain ==
    /\ cpc = "done"
    /\ round = 1
    /\ file' = result
    /\ firstResult' = result
    /\ round' = 2
    /\ buffer' = NoBuffer /\ quality' = 0 /\ attempts' = <<>> /\ result' = NoBuffer
    /\ cpc' = "start"
    /\ UNCHANGED <<textVars, renderVars, batchVars, darkenVars, genVars, crawlVars, socialVars, truncVars>>

CompressNext == CompressBegin \/ CompressEncode \/ CompressReturn \/ CompressAgain

SpecCompress == CompressInit /\ [][CompressNext]_vars

----------------------------------------------------------------------------
(* generateAllPosts over a batch of records, and the notifier's lookup *)

\* most records in one batch
MaxBatch == 2
\* most illustration files in the catalog
MaxCatalog == 2

\* a column holding NULL
Null == "<null>"

\* identifiers, as sequences of characters
Ids == {<<"C", "-", "1">>, <<"C", "-", "2">>, <<"C", ":", "3">>}

\* rows of the vulnerabilities table that getVulnerabilities can return:
\* post_content IS NOT NULL, post_title is a nullable TEXT column
Records ==
    [cve_id : Ids, post_title : {Null, "title"}, post_content : {"", "content"}]

\* cve_id is UNIQUE: the rows of one batch have distinct identifiers
Batches ==
    {b \in UNION {[1..n -> Records] : n \in 0..MaxBatch} :
        \A i, j \in DOMAIN b : b[i].cve_id = b[j].cve_id => i = j}

\* vuln.cve_id.replace(/:/g, '_')
SanitizeId(id) == [i \in DOMAIN id |-> IF id[i] = ":" THEN "_" ELSE id[i]]

\* path.join(this.outputDir, <dir>, <name>), relative to outputDir
PathOf(dir, name) == [dir |-> dir, name |-> name]

\* PostDir without the replacement of ':'
PostDirRaw(vuln) == vuln.cve_id

\* postDir of createPostImages
PostDir(vuln) == SanitizeId(vuln.cve_id)

\* vuln.post_content || 'No content available.'
BodyOf(vuln) ==
    IF vuln.post_content = "" THEN "No content available." ELSE vuln.post_content

\* postTitle.toUpperCase()
toUpperCase(t) == IF t = "title" THEN "TITLE" ELSE t

\* drawThumbnail calls postTitle.toUpperCase(): a TypeError on null
ThumbnailThrows(vuln) == vuln.post_title = Null

\* getRandomBackgroundPath throws when the directory holds no image
BackgroundThrows(n) == n = 0

\* SocialService._getImagePath(cveId, format), relative to outputDir
getImagePath(cveId, format) ==
    [content |-> PathOf(cveId, format \o "-content.png"),
     thumbnail |-> PathOf(cveId, format \o "-thumbnail.png")]

\* the four lookups of the notifier's main
LookupPaths(cveId) ==
    {getImagePath(cveId, "horizontal").thumbnail, getImagePath(cveId, "horizontal").content,
     getImagePath(cveId, "vertical").thumbnail, getImagePath(cveId, "vertical").content}

\* the files present below outputDir
Disk == {PathOf(writes[k].dir, writes[k].name) : k \in DOMAIN writes}

BatchInit ==
    /\ batch \in Batches
    /\ catalog \in 0..MaxCatalog
    /\ bIdx = 0 /\ bvIdx = 0 /\ attempted = <<>> /\ completed = {}
    /\ writes = <<>> /\ canvasCount = 0 /\ attachments = {} /\ seen = {}
    /\ npc = "start" /\ bpc = "start"
    /\ TextIdle /\ RenderIdle /\ CompressIdle /\ DarkenIdle /\ GenIdle
    /\ CrawlIdle /\ SocialIdle /\ TruncIdle

\* generateAllPosts up to its loop: returns at once on an empty batch
GenerateAllPosts ==
    /\ bpc = "start"
    /\ IF Len(batch) = 0
       THEN bpc' = "done" /\ bIdx' = bIdx
       ELSE bpc' = "loop" /\ bIdx' = 1
    /\ UNCHANGED <<batch, catalog, bvIdx, attempted, completed, writes, canvasCount,
                   attachments, seen, npc>>
    /\ UNCHANGED <<textVars, renderVars, compressVars, darkenVars, genVars, crawlVars, socialVars, truncVars>>

\* `await this.createPostImages(vuln)` up to the variant loop; the loop of
\* generateAllPosts has no try/catch, so a throw rejects generateAllPosts
BeginRecord ==
    /\ bpc = "loop"
    /\ attempted' = Append(attempted, bIdx)
    /\ bvIdx' = 0
    /\ bpc' = IF BackgroundThrows(catalog) THEN "rejected" ELSE "variants"
    /\ UNCHANGED <<batch, catalog, bIdx, completed, writes, canvasCount, attachments, seen, npc>>
    /\ UNCHANGED <<textVars, renderVars, compressVars, darkenVars, genVars, crawlVars, socialVars, truncVars>>

\* one iteration of the variant loop for batch[bIdx]; after the fourth,
\* createPostImages returns and generateAllPosts moves to the next record
WriteVariant ==
    /\ bpc = "variants"
    /\ LET vuln == batch[bIdx]
           variant == Variants[bvIdx + 1]
           thumb == IsThumbnail(variant.name)
           last == bvIdx + 1 = Len(Variants)
       IN  /\ canvasCount' = canvasCount + 1
           /\ IF thumb /\ ThumbnailThrows(vuln)
              THEN /\ bpc' = "rejected"
                   /\ UNCHANGED <<writes, bvIdx, completed, bIdx>>
              ELSE /\ writes' = Append(writes,
                        [rec |-> bIdx, dir |-> PostDir(vuln), name |-> variant.name,
                         width |-> variant.width, height |-> variant.height,
                         canvas |-> canvasCount + 1,
                         body |-> IF thumb THEN toUpperCase(vuln.post_title)
                                  ELSE BodyOf(vuln)])
                   /\ bvIdx' = bvIdx + 1
                   /\ completed' = IF last THEN completed \cup {bIdx} ELSE completed
                   /\ bIdx' = IF last THEN bIdx + 1 ELSE bIdx
                   /\ bpc' = IF ~last THEN "variants"
                             ELSE IF bIdx + 1 > Len(batch) THEN "done" ELSE "loop"
    /\ UNCHANGED <<batch, catalog, attempted, attachments, seen, npc>>
    /\ UNCHANGED <<textVars, renderVars, compressVars, darkenVars, genVars, crawlVars, socialVars, truncVars>>

\* the notifier's main, which cron starts whatever the generator is doing:
\* the first row of getVulnerabilities, its four lookups, fs.existsSync on each
Notify ==
    /\ npc = "start"
    /\ attachments' = IF batch = <<>> THEN {}
                      ELSE LookupPaths(batch[1].cve_id) \cap Disk
    /\ seen' = Disk
    /\ npc' = "sent"
    /\ UNCHANGED <<batch, catalog, bIdx, bvIdx, attempted, completed, writes, canvasCount, bpc>>
    /\ UNCHANGED <<textVars, renderVars, compressVars, darkenVars, genVars, crawlVars, socialVars, truncVars>>

BatchNext == GenerateAllPosts \/ BeginRecord \/ WriteVariant \/ Notify

SpecBatch == BatchInit /\ [][BatchNext]_vars

----------------------------------------------------------------------------
(* applyPatternDarken on an ImageData of width x height RGBA pixels *)

\* largest width and height enumerated
MaxDim == 5
\* number of source images enumerated, less one
MaxSeed == 2

\* const tileSize = 2
TileSize == 2

\* const pattern = [[1, 1], [1, 0]], rows and columns counted from 1
Pattern == <<<<1, 1>>, <<1, 0>>>>

\* the darkness factors enumerated, in quarters: 0, 0.25, 0.5, 0.75, 1
Darknesses == 0..4

\* imageData.data of a w x h canvas: 4 bytes per pixel, row after row
ImageOf(w, h, seed) == [k \in 1..(4 * w * h) |-> ((k - 1) * 53 + seed * 97) % 256]

\* Selected with tiles of one pixel
SelectedTileOne(x, y) == Pattern[(y % 2) + 1][(x % 2) + 1] = 1

\* px = Math.floor(x / tileSize) % pattern[0].length, py likewise;
\* pattern[py][px] === 1
Selected(x, y) ==
    LET px == (x \div TileSize) % Len(Pattern[1])
        py == (y \div TileSize) % Len(Pattern)
    IN  Pattern[py + 1][px + 1] = 1

\* data[idx] *= darkness on a Uint8ClampedArray: the product is rounded to
\* the nearest integer, a tie to the even one, and clamped to 0..255
MulClamped(v, d) ==
    LET num == v * d
        q == num \div 4
        r == num % 4
        n == IF r < 2 THEN q ELSE IF r > 2 THEN q + 1
             ELSE IF q % 2 = 0 THEN q ELSE q + 1
    IN  IF n > 255 THEN 255 ELSE n

\* the two loops over y and x: idx = (y * width + x) * 4, the bytes at idx,
\* idx + 1 and idx + 2 are multiplied (data is indexed from 1 here)
DarkenData(data, width, height, d) ==
    [k \in DOMAIN data |->
        IF \E y \in 0..(height - 1) : \E x \in 0..(width - 1) : \E c \in 0..2 :
              Selected(x, y) /\ k = (y * width + x) * 4 + c + 1
        THEN MulClamped(data[k], d)
        ELSE data[k]]

DarkenInit ==
    /\ imgSize \in [width : 1..MaxDim, height : 1..MaxDim]
    /\ darkness \in Darknesses
    /\ \E seed \in 0..MaxSeed : pixels = ImageOf(imgSize.width, imgSize.height, seed)
    /\ darkened = <<>>
    /\ dpc = "start"
    /\ TextIdle /\ RenderIdle /\ CompressIdle /\ BatchIdle /\ GenIdle
    /\ CrawlIdle /\ SocialIdle /\ TruncIdle

\* applyPatternDarken(ctx, width, height, darkness): getImageData, the loops,
\* putImageData
ApplyPatternDarken ==
    /\ dpc = "start"
    /\ darkened' = DarkenData(pixels, imgSize.width, imgSize.height, darkness)
    /\ dpc' = "done"
    /\ UNCHANGED <<imgSize, darkness, pixels>>
    /\ UNCHANGED <<textVars, renderVars, compressVars, batchVars, genVars, crawlVars, socialVars, truncVars>>

DarkenNext == ApplyPatternDarken

SpecDarken == DarkenInit /\ [][DarkenNext]_vars

----------------------------------------------------------------------------
(* CrawlerService.generateContent: the retry loop around the model call *)

\* the default of the retries parameter
Retries == 5

\* const waitTime = 60 * 1000, in milliseconds
WaitTime == 60 * 1000

\* what a function returns when it runs off its end
Undefined == "<undefined>"

\* the fallback string
Fallback == "Description not available."

\* result.response.text() of a call that succeeds
ModelTexts == {"", "generated text"}

\* outcomes of `await model.generateContent(prompt)`: a text, or an error
\* whose message includes '503' or not, 'The model is overloaded' or not
Outcomes ==
    [ok : {TRUE}, text : ModelTexts, has503 : {FALSE}, hasOverloaded : {FALSE}]
    \cup [ok : {FALSE}, text : {Undefined}, has503 : BOOLEAN, hasOverloaded : BOOLEAN]

\* error.message?.includes('503') || error.message?.includes('The model is overloaded')
IsOverloaded(o) == o.has503 \/ o.hasOverloaded

\* RetryAllowed that also retries after the last attempt
RetryAllowedThroughLast(o, att, retries) == IsOverloaded(o) /\ att <= retries

\* isOverloaded && attempt < retries
RetryAllowed(o, att, retries) == IsOverloaded(o) /\ att < retries

GenInit ==
    /\ promptRead \in BOOLEAN
    /\ attempt = 0 /\ calls = <<>> /\ waited = 0 /\ genResult = "none"
    /\ gpc = "start"
    /\ TextIdle /\ RenderIdle /\ CompressIdle /\ BatchIdle /\ DarkenIdle
    /\ CrawlIdle /\ SocialIdle /\ TruncIdle

\* generateContent up to the loop: getPromptFromFile returns the template or,
\* when the file cannot be read, its fallback prompt; attempt = 1
GetPrompt ==
    /\ gpc = "start"
    /\ attempt' = 1
    /\ gpc' = IF 1 <= Retries THEN "call" ELSE "returned"
    /\ genResult' = IF 1 <= Retries THEN genResult ELSE Undefined
    /\ UNCHANGED <<promptRead, calls, waited>>
    /\ UNCHANGED <<textVars, renderVars, compressVars, batchVars, darkenVars, crawlVars, socialVars, truncVars>>

\* one pass of the try/catch: the model call, the return of its text, or the
\* catch branch up to the wait or the fallback return
ModelCall ==
    /\ gpc = "call"
    /\ \E o \in Outcomes :
        /\ calls' = Append(calls, o)
        /\ IF o.ok
           THEN genResult' = o.text /\ gpc' = "returned"
           ELSE IF RetryAllowed(o, attempt, Retries)
                THEN genResult' = genResult /\ gpc' = "wait"
                ELSE genResult' = Fallback /\ gpc' = "returned"
    /\ UNCHANGED <<promptRead, attempt, waited>>
    /\ UNCHANGED <<textVars, renderVars, compressVars, batchVars, darkenVars, crawlVars, socialVars, truncVars>>

\* the setTimeout of waitTime elapses, attempt++, the loop test; a loop that
\* ends lets the function run off its end
WaitOneMinute ==
    /\ gpc = "wait"
    /\ waited' = waited + WaitTime
    /\ attempt' = attempt + 1
    /\ gpc' = IF attempt + 1 <= Retries THEN "call" ELSE "returned"
    /\ genResult' = IF attempt + 1 <= Retries THEN genResult ELSE Undefined
    /\ UNCHANGED <<promptRead, calls>>
    /\ UNCHANGED <<textVars, renderVars, compressVars, batchVars, darkenVars, crawlVars, socialVars, truncVars>>

GenNext == GetPrompt \/ ModelCall \/ WaitOneMinute

SpecGen == GenInit /\ [][GenNext]_vars

----------------------------------------------------------------------------
(* CrawlerService.processAndStoreCVE over successive runs *)

\* most entries in the response of fetchRecentCVE
MaxFeed == 32
\* most runs of processAndStoreCVE
MaxCrawlRuns == 2

\* slice(0, 30)
SliceLimit == 30

\* the feeds enumerated: entry k has identifier k; in a mixed feed every third
\* entry has no cvssMetricV31 and every third a base score of 7.9
FeedOf(n, mixed) ==
    [k \in 1..n |->
        [id |-> k,
         v31 |-> ~(mixed /\ k % 3 = 0),
         score |-> IF mixed /\ k % 3 = 1 THEN 79 ELSE MinScore + (k % 3) * 10]]

\* the filter callback: metrics?.cvssMetricV31?.length, then baseScore >= 8
IsHighCvss(v) == v.v31 /\ v.score >= MinScore

\* cves.filter(...)
highCvssCves(cves) == SelectSeq(cves, IsHighCvss)

\* the orders sort(() => 0.5 - Math.random()) is let to produce: rotations
Shifts == {0, 1, 2, 7}

\* seq rotated left by r places
Rotate(seq, r) ==
    [i \in 1..Len(seq) |-> seq[((i - 1 + r) % Len(seq)) + 1]]

\* the identifiers whose AI generation may fail
FlakyIds == {1}

\* what one generateContent call returns for a CVE: the model's text or the
\* fallback string
GenResults(id) == IF id \in FlakyIds THEN {"generated text", Fallback} ELSE {"generated text"}

\* cveExists that finds no row
cveExistsNever(tbl, id) == FALSE

\* SELECT 1 FROM vulnerabilities WHERE cve_id = ?
cveExists(tbl, id) == \E r \in tbl : r.cve_id = id

\* cve_id TEXT UNIQUE NOT NULL: the INSERT of a stored identifier is rejected
InsertRejects(tbl, id) == \E r \in tbl : r.cve_id = id

CrawlInit ==
    /\ \E n \in 0..MaxFeed : \E mixed \in BOOLEAN : feed = FeedOf(n, mixed)
    /\ table = {} /\ selected = <<>> /\ sIdx = 0 /\ insertedRun = 0
    /\ genLog = <<>> /\ crawlRun = 1 /\ kpc = "start"
    /\ TextIdle /\ RenderIdle /\ CompressIdle /\ BatchIdle /\ DarkenIdle /\ GenIdle
    /\ SocialIdle /\ TruncIdle

\* processAndStoreCVE up to its loop: fetchRecentCVE (which may throw, the
\* outer catch ends the run), the empty check, filter, shuffle, slice(0, 30)
FetchAndSelect ==
    /\ kpc = "start"
    /\ \E fetched \in BOOLEAN :
        IF ~fetched \/ Len(feed) = 0
        THEN kpc' = "done" /\ UNCHANGED <<selected, sIdx>>
        ELSE LET high == highCvssCves(feed)
             IN  \E r \in Shifts :
                    /\ selected' = SubSeq(Rotate(high, r), 1, Min(SliceLimit, Len(high)))
                    /\ sIdx' = 1
                    /\ kpc' = IF Len(high) = 0 THEN "done" ELSE "loop"
    /\ UNCHANGED <<feed, table, insertedRun, genLog, crawlRun>>
    /\ UNCHANGED <<textVars, renderVars, compressVars, batchVars, darkenVars, genVars,
                   socialVars, truncVars>>

\* one iteration of `for (const vulnerability of selectedCves)`: cveExists,
\* three generateContent calls, insertVulnerability; a rejected INSERT is
\* caught by the outer catch, which ends the run
ProcessCVE ==
    /\ kpc = "loop"
    /\ LET cve == selected[sIdx]
           last == sIdx = Len(selected)
       IN  IF cveExists(table, cve.id)
           THEN /\ kpc' = IF last THEN "done" ELSE "loop"
                /\ UNCHANGED <<table, insertedRun, genLog>>
           ELSE \E post_title, post_content, post_description \in GenResults(cve.id) :
                /\ genLog' = Append(genLog,
                      [run |-> crawlRun, id |-> cve.id,
                       stored |-> \E r \in table : r.cve_id = cve.id,
                       failed |-> Fallback \in {post_title, post_content, post_description}])
                /\ IF InsertRejects(table, cve.id)
                   THEN kpc' = "done" /\ UNCHANGED <<table, insertedRun>>
                   ELSE /\ table' = table \cup
                             {[cve_id |-> cve.id, cvss_score |-> cve.score,
                               post_title |-> post_title, post_content |-> post_content,
                               description |-> post_description, used |-> 0]}
                        /\ insertedRun' = insertedRun + 1
                        /\ kpc' = IF last THEN "done" ELSE "loop"
    /\ sIdx' = sIdx + 1
    /\ UNCHANGED <<feed, selected, crawlRun>>
    /\ UNCHANGED <<textVars, renderVars, compressVars, batchVars, darkenVars, genVars,
                   socialVars, truncVars>>

\* cron starts the next run of the crawler
NextCrawl ==
    /\ kpc = "done"
    /\ crawlRun < MaxCrawlRuns
    /\ crawlRun' = crawlRun + 1
    /\ selected' = <<>> /\ sIdx' = 0 /\ insertedRun' = 0
    /\ kpc' = "start"
    /\ UNCHANGED <<feed, table, genLog>>
    /\ UNCHANGED <<textVars, renderVars, compressVars, batchVars, darkenVars, genVars,
                   socialVars, truncVars>>

CrawlNext == FetchAndSelect \/ ProcessCVE \/ NextCrawl

SpecCrawl == CrawlInit /\ [][CrawlNext]_vars

----------------------------------------------------------------------------
(* SocialService.truncate, as publishOnBluesky and other callers use it *)

\* longest text enumerated
MaxText == 304
\* largest of the small limits enumerated
MaxSmallLimit == 5

\* the limit publishOnBluesky passes: this.truncate(postText, 300)
PostLimit == 300

Limits == (0..MaxSmallLimit) \cup {PostLimit}

Digits == <<"0", "1", "2", "3", "4", "5", "6", "7", "8", "9">>

\* the text of n characters enumerated: its i-th character is the digit i mod 10
TextOfLen(n) == [i \in 1..n |-> Digits[(i % 10) + 1]]

Dots == <<".", ".", ".">>

\* truncate that keeps limit characters before the dots
truncateKeepLimit(txt, limit) ==
    IF Len(txt) <= limit THEN txt ELSE Slice(txt, 0, limit) \o Dots

\* if (text.length <= limit) return text; return text.slice(0, limit - 3) + "..."
truncate(txt, limit) ==
    IF Len(txt) <= limit THEN txt ELSE Slice(txt, 0, limit - 3) \o Dots

TruncInit ==
    /\ \E n \in 0..MaxText : trText = TextOfLen(n)
    /\ trLimit \in Limits
    /\ trResult = <<>>
    /\ trpc = "start"
    /\ TextIdle /\ RenderIdle /\ CompressIdle /\ BatchIdle /\ DarkenIdle /\ GenIdle
    /\ CrawlIdle /\ SocialIdle

\* postText = this.truncate(postText, limit)
CallTruncate ==
    /\ trpc = "start"
    /\ trResult' = truncate(trText, trLimit)
    /\ trpc' = "done"
    /\ UNCHANGED <<trText, trLimit>>
    /\ UNCHANGED <<textVars, renderVars, compressVars, batchVars, darkenVars, genVars,
                   crawlVars, socialVars>>

TruncNext == CallTruncate

SpecTrunc == TruncInit /\ [][TruncNext]_vars

----------------------------------------------------------------------------
(* The notifier's main over successive cron runs *)

\* most rows in the table
MaxRows == 2
\* latest published_at enumerated
MaxPublished == 2
\* most runs of main
MaxSocialRuns == 3

\* const blueskyLimit = 1
BlueskyLimit == 1

\* rows as insertVulnerability stores them: used is 0, post_content may be NULL
StoredRows(id) ==
    [cve_id : {id}, published_at : 1..MaxPublished, post_content : {Null, "content"},
     used : {0}]

\* tables of n rows with the identifiers 1..n
Tables == UNION {{t \in [1..n -> UNION {StoredRows(i) : i \in 1..n}] :
                    \A i \in 1..n : t[i].cve_id = i} : n \in 0..MaxRows}

\* WHERE post_content IS NOT NULL AND used = 0
Eligible(tbl) == {i \in DOMAIN tbl : tbl[i].post_content # Null /\ tbl[i].used = 0}

\* ORDER BY published_at DESC LIMIT limit: the results the query may give,
\* rows of equal published_at in either order
getVulnerabilities(tbl, limit) ==
    {q \in UNION {[1..n -> Eligible(tbl)] : n \in {Min(limit, Cardinality(Eligible(tbl)))}} :
        /\ \A a, b \in DOMAIN q : q[a] = q[b] => a = b
        /\ \A a \in DOMAIN q : \A i \in Eligible(tbl) :
              (\A b \in DOMAIN q : q[b] # i) => tbl[i].published_at <= tbl[q[a]].published_at
        /\ \A a, b \in DOMAIN q : a < b => tbl[q[a]].published_at >= tbl[q[b]].published_at}

RECURSIVE SendAll(_, _, _, _)
\* the for loop of main from entry i of vulnerabilities on: sendMail for each
\* row; a sendMail that throws ends the run through the catch of main.
\* delivered[i] tells whether the i-th sendMail succeeds
SendAll(tbl, q, i, delivered) ==
    IF i > Len(q) \/ ~delivered[i] THEN <<>>
    ELSE <<tbl[q[i]].cve_id>> \o SendAll(tbl, q, i + 1, delivered)

SocialInit ==
    /\ rows \in Tables
    /\ mails = <<>> /\ socialRun = 1 /\ spc = "start"
    /\ TextIdle /\ RenderIdle /\ CompressIdle /\ BatchIdle /\ DarkenIdle /\ GenIdle
    /\ CrawlIdle /\ TruncIdle

\* one run of main: getVulnerabilities(blueskyLimit), a mail for each row; the
\* publishing and markLineAsUsed calls are commented out, rows is not written
SocialMain ==
    /\ spc = "start"
    /\ \E q \in getVulnerabilities(rows, BlueskyLimit) :
       \E delivered \in [DOMAIN q -> BOOLEAN] :
          mails' = mails \o SendAll(rows, q, 1, delivered)
    /\ spc' = "done"
    /\ UNCHANGED <<rows, socialRun>>
    /\ UNCHANGED <<textVars, renderVars, compressVars, batchVars, darkenVars, genVars,
                   crawlVars, truncVars>>

\* cron starts the next run of the notifier
NextSocial ==
    /\ spc = "done"
    /\ socialRun < MaxSocialRuns
    /\ socialRun' = socialRun + 1
    /\ spc' = "start"
    /\ UNCHANGED <<rows, mails>>
    /\ UNCHANGED <<textVars, renderVars, compressVars, batchVars, darkenVars, genVars,
                   crawlVars, truncVars>>

SocialNext == SocialMain \/ NextSocial

SpecSocial == SocialInit /\ [][SocialNext]_vars

----------------------------------------------------------------------------
(* Properties of the text layout, checked under SpecText *)

RECURSIVE SumOver(_, _)
SumOver(ws, fontSize) ==
    IF ws = <<>> THEN 0
    ELSE measureTextWidth(Head(ws), fontSize, "regular") + SumOver(Tail(ws), fontSize)

\* width of a line: its words under the regular style plus one space between
\* each pair of adjacent words
LineWidth(line, fontSize, spaceW) ==
    SumOver(Split(line), fontSize) + (Len(Split(line)) - 1) * spaceW

StripStars(s) == SelectSeq(s, LAMBDA c : c # STAR)

CountStars(s) == Len(SelectSeq(s, LAMBDA c : c = STAR))

SegTexts(segs) == Concat([i \in 1..Len(segs) |-> segs[i].text])

RECURSIVE StarRun(_, _)
\* number of consecutive asterisks from index i on
StarRun(s, i) == IF i <= Len(s) /\ s[i] = STAR THEN 1 + StarRun(s, i + 1) ELSE 0

RECURSIVE WellFormedFrom(_, _)
\* s from index i on is a sequence of plain text and of emphasis runs
\* *t*, **t**, ***t*** with t not empty and free of asterisks
WellFormedFrom(s, i) ==
    IF i > Len(s) THEN TRUE
    ELSE IF s[i] # STAR THEN WellFormedFrom(s, PlainEnd(s, i) + 1)
    ELSE LET k == StarRun(s, i)
         IN  /\ k \in 1..3
             /\ i + k <= Len(s)
             /\ LET j == PlainEnd(s, i + k)
                IN  /\ StarRun(s, j + 1) >= k
                    /\ WellFormedFrom(s, j + 1 + k)

WellFormed(s) == WellFormedFrom(s, 1)

\* text is words separated by single spaces: split(' ') yields no empty word
PlainWords(s) == \A i \in 1..Len(Split(s)) : Split(s)[i] # <<>>

\* C1: every line returned by splitTextIntoLines is at most maxWidth wide
\* (words under the regular style, one space between adjacent words, the
\* space as wide as the code itself measured it), except a line of exactly one
\* word that alone is wider than maxWidth.  Stated for texts whose words are
\* separated by single spaces.
C1_LinesFitMaxWidth ==
    (tpc = "drawn" /\ PlainWords(text)) =>
        \A i \in 1..Len(wrapped) :
            LET w == LineWidth(wrapped[i], BodyFontSize, spaceUsed)
                maxWidth == canvas.width - 2 * Margin
            IN  \/ w <= maxWidth
                \/ Len(Split(wrapped[i])) = 1 /\ w > maxWidth

\* C2: drawText never draws more than floor((height - 2*margin) / lineHeight)
\* lines, whatever the text and the canvas.
C2_AtMostMaxLines ==
    tpc = "drawn" => Len(drawn) * 60 <= canvas.height - 2 * 80

\* C2 witness: wrapping produced more lines than fit and lines were dropped.
C2_Witness ==
    /\ tpc = "drawn"
    /\ Len(wrapped) > Len(drawn)
    /\ Len(drawn) = 2

\* C3: beyond maxLines wrapped lines, drawText keeps the first maxLines lines
\* unchanged except the last kept one, which loses its last three characters
\* and gets "..." when it is longer than 3 and stays as it is otherwise; with
\* at most maxLines wrapped lines nothing is altered.
C3_TruncationShape ==
    tpc = "drawn" =>
        LET maxLines == (canvas.height - 160) \div 60
        IN  IF Len(wrapped) > maxLines
            THEN /\ Len(drawn) = maxLines
                 /\ \A i \in 1..(maxLines - 1) : drawn[i] = wrapped[i]
                 /\ LET last == wrapped[maxLines]
                    IN  drawn[maxLines] =
                            IF Len(last) > 3
                            THEN SubSeq(last, 1, Len(last) - 3) \o <<".", ".", ".">>
                            ELSE last
            ELSE drawn = wrapped

\* C3 witness: lines were dropped and the last kept line, longer than 3, was
\* cut and suffixed.
C3_Witness ==
    /\ tpc = "drawn"
    /\ Len(wrapped) > Len(drawn)
    /\ Len(wrapped[Len(drawn)]) > 3
    /\ drawn[Len(drawn)] # wrapped[Len(drawn)]

\* C4: for a style-delimited line, the texts of the spans of parseMarkdown,
\* concatenated in order, are the line without its asterisks.
C4_ConcatStripsDelimiters ==
    (tpc = "parsed" /\ WellFormed(text)) => SegTexts(segments[1]) = StripStars(text)

\* C4 witness: a parsed line holding two emphasis runs and plain text.
C4_Witness ==
    /\ tpc = "parsed"
    /\ WellFormed(text)
    /\ Len(runs) = 3
    /\ runs[1].style = "bold" /\ runs[2].style = "regular" /\ runs[3].style = "italic"

\* C5: an unmatched or malformed delimiter is kept as literal text in a span
\* of regular style and no character is lost: asterisks show up in regular
\* spans only, every other character is kept, and a line with a single
\* asterisk comes back whole.
C5_UnmatchedKeptLiteral ==
    tpc = "parsed" =>
        /\ \A i \in 1..Len(segments[1]) :
               CountStars(segments[1][i].text) > 0 => segments[1][i].style = "regular"
        /\ StripStars(SegTexts(segments[1])) = StripStars(text)
        /\ CountStars(text) = 1 => SegTexts(segments[1]) = text

\* C6: parseMarkdown gives each emphasis run the style of its delimiter and
\* plain text the regular style, run by run: the spans are the runs the line
\* was written from, so neighbouring runs are never merged.
C6_StylesByDelimiter ==
    (tpc = "parsed" /\ runs # <<>>) => segments[1] = runs

\* C6 witness: a parsed line with two bold runs next to each other.
C6_Witness ==
    /\ tpc = "parsed"
    /\ Len(runs) >= 2
    /\ runs[1].style = "bold" /\ runs[2].style = "bold"
    /\ Len(segments[1]) = Len(runs)

\* the style an emphasis span of k asterisks stands for
StyleOfStars(k) ==
    IF k = 1 THEN "italic" ELSE IF k = 2 THEN "bold" ELSE "bolditalic"

\* the characters of s[from..to], each paired with style st
StyledChars(s, from, to, st) == [i \in 1..(to - from + 1) |-> [ch |-> s[from + i - 1], style |-> st]]

RECURSIVE SpanStyles(_, _)
\* for a well-formed s, the characters of s from index i on other than the
\* delimiters, each with the style of the emphasis span that contains it
SpanStyles(s, i) ==
    IF i > Len(s) THEN <<>>
    ELSE IF s[i] # STAR
         THEN StyledChars(s, i, PlainEnd(s, i), "regular") \o SpanStyles(s, PlainEnd(s, i) + 1)
         ELSE LET k == StarRun(s, i)
                  j == PlainEnd(s, i + k)
              IN  StyledChars(s, i + k, j, StyleOfStars(k)) \o SpanStyles(s, j + 1 + k)

\* the characters drawText drew, line after line, each with the style of the
\* segment it was drawn in
DrawnStyles ==
    Concat([l \in 1..Len(segments) |->
        Concat([g \in 1..Len(segments[l]) |->
            StyledChars(segments[l][g].text, 1, Len(segments[l][g].text),
                        segments[l][g].style)])])

NoSpaces(cs) == SelectSeq(cs, LAMBDA c : c.ch # SPACE)

\* C17: every word of a well-formed body is drawn in the style of the emphasis
\* span that contains it in the body, also when wrapping puts the two
\* delimiters of a span on different lines.  Stated for bodies drawn without
\* truncation whose delimiters all touch a word, character by character,
\* spaces aside.
C17_WordsKeepSpanStyle ==
    (/\ tpc = "drawn" /\ WellFormed(text) /\ drawn = wrapped
     /\ \A w \in 1..Len(Split(text)) : StripStars(Split(text)[w]) # <<>>) =>
        NoSpaces(DrawnStyles) = NoSpaces(SpanStyles(text, 1))

\* C18: drawText returns top = height - 1.5*margin - n*lineHeight, bottom =
\* height - 1.5*margin and center midway between them, n the number of drawn
\* lines, margin 80 and lineHeight 60; so bottom is at most height - margin
\* and top is not negative.  textPos holds doubled pixels.
C18_TextBlockPlacement ==
    tpc = "drawn" =>
        LET n == Len(drawn)
            h == canvas.height
        IN  /\ textPos.top = 2 * h - 240 - 2 * n * 60
            /\ textPos.bottom = 2 * h - 240
            /\ 2 * textPos.center = textPos.top + textPos.bottom
            /\ textPos.bottom <= 2 * (h - 80)
            /\ textPos.top >= 0

\* C18 witness: a body cut to the most lines its canvas takes, its top 40
\* pixels below the upper edge
C18_Witness ==
    /\ tpc = "drawn"
    /\ Len(wrapped) > Len(drawn)
    /\ textPos.top = 80

\* C23: the space width splitTextIntoLines adds between words is the width
\* of a space in the layout font (the body font size, regular style), whatever
\* was drawn on the context before; drawBubbles leaves ctx.font as it found it.
C23_SpaceInLayoutFont ==
    /\ tpc = "bubbles" => ctxFont = DefaultFont
    /\ tpc = "drawn" =>
          spaceUsed = measureText(SPACE, Font(BodyFontSize, getFontFromMarkdown("regular")))

\* C24: joining the lines returned by splitTextIntoLines with single spaces
\* gives back the text, so every word is on exactly one line, once, in its
\* original order.
C24_WrappingLosesNothing ==
    tpc \in {"drawn", "threw"} =>
        /\ Join(wrapped) = text
        /\ Concat([i \in 1..Len(wrapped) |-> Split(wrapped[i])]) = Split(text)

\* C24 witness: a text of three words wrapped onto more than one line
C24_Witness ==
    /\ tpc = "drawn"
    /\ Len(Split(text)) = 3
    /\ Len(wrapped) >= 2
    /\ PlainWords(text)

----------------------------------------------------------------------------
(* Properties of createPostImages, checked under SpecRender *)

\* the drawing calls that take the theme
ThemedOps == {"gradient", "badge-label", "badge-id", "score-badge"}

\* C7: the theme depends on the score alone, blue up to 9, orange above 9 up
\* to 9.5, red above 9.5, and every gradient and badge of every variant of the
\* record is drawn with that one theme.
C7_ThemeByScore ==
    LET expected == IF score <= 90 THEN "blue"
                    ELSE IF score <= 95 THEN "orange" ELSE "red"
    IN  /\ rpc # "start" => themeColor = expected
        /\ \A v \in 1..Len(ops) : \A i \in 1..Len(ops[v]) :
               ops[v][i].op \in ThemedOps => ops[v][i].theme = expected

\* C7 witness: all four variants of a record scored 9.5 are rendered, orange.
C7_Witness ==
    /\ rpc = "done"
    /\ score = 95
    /\ Len(ops) = 4
    /\ \A v \in 1..4 : \E i \in 1..Len(ops[v]) :
           ops[v][i].op = "gradient" /\ ops[v][i].theme = "orange"

\* the kinds of the drawing calls of rendered variant v, in call order
OpKinds(v) == [i \in 1..Len(ops[v]) |-> ops[v][i].op]

\* C13: every variant is drawn in the order background, darkening pattern,
\* gradient, then the role's content (thumbnail: both badges, title, chevrons;
\* content: both badges, body text, score badge), then the credit tag and the
\* source tag, which are the last drawing steps before the file is written.
C13_FixedDrawOrder ==
    /\ Len(written) = Len(ops)
    /\ \A v \in 1..Len(ops) :
        /\ written[v] \in {"vertical-thumbnail.png", "horizontal-thumbnail.png"} =>
              OpKinds(v) = <<"background", "darken", "gradient", "badge-label", "badge-id",
                             "title", "arrows", "credit", "source">>
        /\ written[v] \in {"vertical-content.png", "horizontal-content.png"} =>
              OpKinds(v) = <<"background", "darken", "gradient", "badge-label", "badge-id",
                             "text", "score-badge", "credit", "source">>
        /\ written[v] \in {Variants[k].name : k \in 1..4}

\* C13 witness: a thumbnail and a content variant have both been drawn
C13_Witness ==
    /\ Len(ops) >= 2
    /\ OpKinds(1)[6] = "title" /\ OpKinds(2)[6] = "text"
    /\ OpKinds(2)[Len(ops[2])] = "source"

\* the fill colours of the badges of kind k, over all rendered variants
FillsOf(k) ==
    {ops[v][i].fill : <<v, i>> \in
        {<<v, i>> \in (DOMAIN ops) \X (1..9) : i <= Len(ops[v]) /\ ops[v][i].op = k}}

\* the primary colour of the theme of a score, from the theme table
PrimaryOf(s) ==
    IF s <= 90 THEN "rgba(30,64,175,1)"
    ELSE IF s <= 95 THEN "rgba(175,107,30,1)" ELSE "rgba(175,30,30,1)"

\* C16 as stated: in every variant the "New vulnerability" badge and the
\* identifier badge are both filled with the theme's primary colour.
C16_BothBadgesPrimary ==
    FillsOf("badge-label") \cup FillsOf("badge-id") \subseteq {PrimaryOf(score)}

\* C16 amended: in every variant the "New vulnerability" badge (and the score
\* badge of a content variant) is filled with the theme's primary colour, and
\* the identifier badge is filled white, whatever the theme.
C16_LabelPrimaryIdWhite ==
    /\ FillsOf("badge-label") \cup FillsOf("score-badge") \subseteq {PrimaryOf(score)}
    /\ FillsOf("badge-id") \subseteq {"#FFF"}

\* C16 witness: a record scored 9.7 is rendered, its label badges red and its
\* identifier badges white
C16_Witness ==
    /\ rpc = "done" /\ score = 97
    /\ FillsOf("badge-label") = {"rgba(175,30,30,1)"}
    /\ FillsOf("badge-id") = {"#FFF"}

----------------------------------------------------------------------------
(* Properties of compressImage, checked under SpecCompress *)

\* C8: compressImage never returns more bytes than the file holds, and when
\* the ceiling is not reached it returns the smallest of the buffers its
\* re-encodes produced, whatever sizes the encoder yields.
C8_NeverLargerAndSmallest ==
    cpc = "done" =>
        /\ result.size <= file.size
        /\ (attempts # <<>> /\ result.size > BlobLimit) =>
               \A i \in 1..Len(attempts) : result.size <= attempts[i].size

\* C9: for a file above the ceiling there are at most 5 re-encodes, at the
\* qualities 90, 80, 70, 60, 50 in this order, each of the file itself, and
\* the loop stops at the first output within the ceiling.
C9_BoundedReencodes ==
    /\ Len(attempts) <= 5
    /\ \A i \in 1..Len(attempts) :
           /\ attempts[i].quality = 100 - 10 * i
           /\ attempts[i].source = file.data
           /\ i < Len(attempts) => attempts[i].size > 972800
    /\ (cpc = "done" /\ file.size > 972800) =>
           /\ Len(attempts) >= 1
           /\ attempts[Len(attempts)].size <= 972800 \/ Len(attempts) = 5
           /\ result.size = attempts[Len(attempts)].size

\* C9 witness: five re-encodes were made and the ceiling was never reached.
C9_Witness ==
    /\ cpc = "done"
    /\ Len(attempts) = 5
    /\ result.size > 972800

\* C10: a file within the ceiling is returned as it is, with no re-encode, and
\* compressImage applied to what it returned gives the same bytes again.
C10_UnchangedWithinLimit ==
    /\ (cpc = "done" /\ file.size <= 972800) =>
           result = file /\ attempts = <<>>
    /\ (cpc = "done" /\ round = 2 /\ firstResult.size <= 972800) =>
           result = firstResult

\* C10 witness: a file of exactly the ceiling came back unchanged twice.
C10_Witness ==
    /\ cpc = "done"
    /\ round = 2
    /\ firstResult.enc = "png"
    /\ firstResult.size = 972800
    /\ result = firstResult

\* bskyClient.uploadBlob(imgBuffer, { encoding: mimeType }) of publishOnBluesky,
\* imgBuffer being what compressImage returned for a file createPostImages wrote
UploadedBlob == [blob |-> result, encoding |-> "image/jpeg"]

\* C27: the blob publishOnBluesky uploads is JPEG-encoded, as the encoding it
\* declares says, whether or not compressImage re-encoded the file.
C27_UploadedBlobIsJpeg ==
    (cpc = "done" /\ round = 1) =>
        /\ UploadedBlob.encoding = "image/jpeg"
        /\ UploadedBlob.blob.enc = "jpeg"

----------------------------------------------------------------------------
(* Properties of generateAllPosts and the notifier, checked under SpecBatch *)

BatchEnded == bpc \in {"done", "rejected"}

\* the fs.writeFileSync calls made for record i
WritesOf(i) == {k \in DOMAIN writes : writes[k].rec = i}

WrittenPaths(i) == {PathOf(writes[k].dir, writes[k].name) : k \in WritesOf(i)}

\* C11: when the illustration catalog is empty, so that rendering a record
\* fails in getRandomBackgroundPath, generateAllPosts still calls
\* createPostImages for every record of the batch.
C11_FailureSkipsOnlyRecord ==
    (BatchEnded /\ BackgroundThrows(catalog)) =>
        attempted = [i \in 1..Len(batch) |-> i]

\* C12: a record whose title or body is absent is still rendered: all four
\* files are written, and the content variants carry "No content available."
\* when the body is absent.
C12_AbsentFieldsStillRendered ==
    (BatchEnded /\ ~BackgroundThrows(catalog) /\ Len(batch) >= 1) =>
        /\ 1 \in completed
        /\ {writes[k].name : k \in WritesOf(1)} = {Variants[v].name : v \in 1..4}
        /\ \A k \in WritesOf(1) :
              (~IsThumbnail(writes[k].name) /\ batch[1].post_content = "") =>
                  writes[k].body = "No content available."

\* C14: a createPostImages call that returns has written exactly the four
\* files vertical-thumbnail.png and vertical-content.png (1080x1350),
\* horizontal-thumbnail.png and horizontal-content.png (1920x1080), each from
\* a canvas no other write used, all in the directory named by the identifier
\* with every ':' replaced by '_', and no two of them at the same path.
C14_FourFilesOneDirectory ==
    \A i \in completed :
        LET id == batch[i].cve_id
            ws == WritesOf(i)
        IN  /\ Cardinality(ws) = 4
            /\ {<<writes[k].name, writes[k].width, writes[k].height>> : k \in ws}
                 = {<<"vertical-thumbnail.png", 1080, 1350>>,
                    <<"vertical-content.png", 1080, 1350>>,
                    <<"horizontal-thumbnail.png", 1920, 1080>>,
                    <<"horizontal-content.png", 1920, 1080>>}
            /\ \A k \in ws : \A m \in DOMAIN writes :
                  writes[k].canvas = writes[m].canvas => k = m
            /\ \A k \in ws :
                  /\ Len(writes[k].dir) = Len(id)
                  /\ \A c \in 1..Len(id) :
                        writes[k].dir[c] = (IF id[c] = ":" THEN "_" ELSE id[c])
            /\ Cardinality(WrittenPaths(i)) = 4

\* a record whose identifier holds a ':' was rendered to the end
C14_Witness ==
    \E i \in completed : \E c \in DOMAIN batch[i].cve_id : batch[i].cve_id[c] = ":"

\* C15: for every identifier, the four paths the notifier looks up through
\* _getImagePath are the four paths createPostImages wrote for it, so the
\* notifier attaches all four files of a rendered record.
C15_LookupFindsWrittenFiles ==
    /\ \A i \in completed : LookupPaths(batch[i].cve_id) = WrittenPaths(i)
    /\ (npc = "sent" /\ 1 \in completed /\ WrittenPaths(1) \subseteq seen) =>
          attachments = WrittenPaths(1)

\* C26: the notification for a record attaches all four of its images or
\* none: the notifier never sees the output directory while createPostImages
\* has written only some of the four files of the record.
C26_AllFourOrNone ==
    npc = "sent" =>
        /\ Cardinality(attachments) \in {0, 4}
        /\ batch # <<>> => Cardinality({p \in seen : p.dir = PostDir(batch[1])}) \in {0, 4}

----------------------------------------------------------------------------
(* Properties of applyPatternDarken, checked under SpecDarken *)

\* byte c (0: R, 1: G, 2: B, 3: A) of pixel (x, y) in data
ChannelAt(data, x, y, c) == data[4 * (y * imgSize.width + x) + c + 1]

\* C19: the R, G and B bytes of exactly the pixels (x, y) whose 2x2 tile
\* falls on a 1 of the pattern [[1,1],[1,0]] (every tile but the one with
\* floor(x/2) and floor(y/2) both odd) are multiplied by darkness, rounded to
\* the nearest byte; every other pixel and every alpha byte is unchanged.
C19_DarkenExactlyPattern ==
    dpc = "done" =>
        /\ Len(darkened) = Len(pixels)
        /\ \A x \in 0..(imgSize.width - 1) : \A y \in 0..(imgSize.height - 1) :
              LET hit == ~(x % 4 \in {2, 3} /\ y % 4 \in {2, 3})
              IN  /\ ChannelAt(darkened, x, y, 3) = ChannelAt(pixels, x, y, 3)
                  /\ \A c \in 0..2 :
                        LET before == ChannelAt(pixels, x, y, c)
                            after == ChannelAt(darkened, x, y, c)
                        IN  IF hit
                            THEN /\ 4 * after - before * darkness \in -2..2
                                 /\ after \in 0..255
                            ELSE after = before

\* C19 witness: an image that holds pixels of a tile off the pattern next to
\* pixels on it, darkened by a factor that changes a byte
C19_Witness ==
    /\ dpc = "done"
    /\ imgSize.width >= 4 /\ imgSize.height >= 4
    /\ darkness = 2
    /\ ChannelAt(darkened, 3, 3, 0) = ChannelAt(pixels, 3, 3, 0)
    /\ ChannelAt(darkened, 1, 3, 0) # ChannelAt(pixels, 1, 3, 0)

----------------------------------------------------------------------------
(* Properties of generateContent, checked under SpecGen *)

\* C20: generateContent with the default of 5 retries makes at most 5 model
\* calls, makes another call only after an overloaded error (a message with
\* '503' or 'The model is overloaded') and a wait of one minute, and returns a
\* string: the model's text on the first success, "Description not
\* available." on the first error that is not an overload or when the fifth
\* call fails.
C20_BoundedRetriesStringResult ==
    LET n == Len(calls)
    IN  /\ n <= 5
        /\ \A i \in 1..(n - 1) :
              ~calls[i].ok /\ (calls[i].has503 \/ calls[i].hasOverloaded)
        /\ gpc = "call" => waited = 60000 * n
        /\ gpc \in {"wait", "returned"} => n >= 1 /\ waited = 60000 * (n - 1)
        /\ gpc = "returned" =>
              /\ genResult # Undefined
              /\ IF calls[n].ok
                 THEN genResult = calls[n].text
                 ELSE /\ genResult = "Description not available."
                      /\ \/ ~(calls[n].has503 \/ calls[n].hasOverloaded)
                         \/ n = 5
        /\ gpc = "wait" => ~calls[n].ok /\ n < 5

\* C20 witness: five overloaded calls, four waits, the fallback returned
C20_Witness ==
    /\ gpc = "returned"
    /\ Len(calls) = 5
    /\ calls[5].has503
    /\ waited = 240000
    /\ genResult = "Description not available."

----------------------------------------------------------------------------
(* Properties of processAndStoreCVE, checked under SpecCrawl *)

C28_FallbackNeverPersisted ==
    /\ \A r \in table :
          "Description not available." \notin {r.post_title, r.post_content, r.description}
    /\ \A g \in DOMAIN genLog :
          genLog[g].failed => \A r \in table : r.cve_id # genLog[g].id

----------------------------------------------------------------------------
(* Properties of truncate, checked under SpecTrunc *)

\* C22: truncate returns a text no longer than limit unchanged, and otherwise
\* (for a limit of at least 3) its first limit - 3 characters followed by
\* "..."; for a limit of at least 3 the result is never longer than limit, so
\* with the limit 300 of publishOnBluesky the posted text has at most 300
\* characters.
C22_TruncateWithinLimit ==
    trpc = "done" =>
        LET n == Len(trText)
        IN  /\ n <= trLimit => trResult = trText
            /\ (n > trLimit /\ trLimit >= 3) =>
                  /\ Len(trResult) = trLimit
                  /\ \A i \in 1..(trLimit - 3) : trResult[i] = trText[i]
                  /\ \A i \in (trLimit - 2)..trLimit : trResult[i] = "."
            /\ trLimit >= 3 => Len(trResult) <= trLimit
            /\ trLimit = 300 => Len(trResult) <= 300

\* C22 witness: a text of more than 300 characters cut to exactly 300
C22_Witness ==
    /\ trpc = "done"
    /\ trLimit = 300
    /\ Len(trText) > 300
    /\ Len(trResult) = 300
    /\ trResult[297] = trText[297] /\ trResult[298] = "."

----------------------------------------------------------------------------
(* Properties of the notifier over successive runs, checked under SpecSocial *)

\* C25: a vulnerability whose mail was delivered in one run of main is not
\* selected in a later run: no identifier is mailed twice.
C25_NotifiedAtMostOnce ==
    \A i, j \in DOMAIN mails : mails[i] = mails[j] => i = j

====
